---- MODULE Spec2Model ----
(***************************************************************************)
(* One query-answering pass of the RAG pipeline: the stage graph of        *)
(* rag_pipeline/graph_builder.py driving the nodes of                      *)
(* rag_pipeline/nodes.py over one GraphState (rag_pipeline/graph_state.py).*)
(* Spec is one pass; SessionSpec is the loop of main.py's run_cli, which   *)
(* starts a pass for every query and records the turn in its chat history. *)
(*                                                                         *)
(* Representation.                                                         *)
(*  - A text (Python str) is a sequence of tokens.  A token is a piece of  *)
(*    the string; the phrases the code searches for ("cannot answer",      *)
(*    "an error occurred", ...) and the citation markers are tokens of     *)
(*    their own, so  phrase in text.lower()  is a search over the tokens   *)
(*    and startswith is a test of the first token.                         *)
(*  - An Optional value is None (the empty tuple) or Some(v) = <<v>>.      *)
(*  - The nodes mutate the GraphState dict in place; the router and the    *)
(*    edge lambda receive that same dict, as the source is written.        *)
(*  - The language model, the vector store and the driving graph library   *)
(*    are the environment: each call's outcome is chosen with \E.          *)
(***************************************************************************)
EXTENDS Integers, Sequences, FiniteSets, TLC

\* ------------------------------------------------------------------ bounds
\* Largest number of passages the vector store holds for a query.
MaxDocs == 2

\* How many turns a session may add to its chat history before it stops
\* taking queries.
MaxTurns == 2

\* config.py: TOP_K_RETRIEVAL
TOP_K_RETRIEVAL == 10

\* str(e)[:100] in every except clause of nodes.py
ErrTextLimit == 100

\* ---------------------------------------------------------------- optionals
None == << >>
Some(v) == <<v>>

\* Python truthiness of an Optional[str] / Optional[list]: None and the empty
\* value are both falsy.
Truthy(o) == o # None /\ o[1] # << >>

\* Python truthiness of an Optional[dict] whose dict is never empty.
IsSet(o) == o # None

Min(a, b) == IF a < b THEN a ELSE b

\* s[:n]
Prefix(s, n) == SubSeq(s, 1, Min(Len(s), n))

\* -------------------------------------------------------------------- texts
\* str.lower() on one token.
Lower(tok) ==
  CASE tok = "No relevant documents" -> "no relevant documents"
    [] tok = "An error occurred" -> "an error occurred"
    [] tok = "I apologize" -> "i apologize"
    [] tok = "I Apologize" -> "i apologize"
    [] tok = "Cannot answer" -> "cannot answer"
    [] tok = "Paper1.PDF" -> "paper1.pdf"
    [] tok = "Notes.pdf" -> "notes.pdf"
    [] OTHER -> tok

\* [f_name.lower() for f_name in names]
NormalizeFilenames(names) == [i \in 1..Len(names) |-> Lower(names[i])]

\* phrase in text.lower()
LowerContains(text, phrase) == \E i \in 1..Len(text) : Lower(text[i]) = phrase

\* text.lower().startswith(phrase)
LowerStartsWith(text, phrase) == Len(text) > 0 /\ Lower(text[1]) = phrase

\* The router's failure phrases (nodes.py line 242).
RouterFailurePhrases ==
  {"cannot answer", "not contain sufficient information",
   "no relevant documents", "couldn't find relevant information"}

\* The failure phrases of the synthesis selection and of the format fallback
\* (nodes.py lines 317 and 364).
SelectionFailurePhrases ==
  {"cannot answer", "not contain sufficient information", "no relevant documents"}

\* any(phrase in text.lower() for phrase in phrases)
AnyPhrase(text, phrases) == \E p \in phrases : LowerContains(text, p)

\* ----------------------------------------------------------- fixed messages
NoRelevantDocsMsg ==
  <<"No relevant documents",
    " were found to answer your query based on the specified criteria.">>

DocApologyMsg ==
  <<"Sorry, ", "an error occurred", " while generating the answer from documents.">>

CouldntFindMsg ==
  <<"I ", "couldn't find relevant information",
    " in the specified documents to answer your query.">>

RestrictedCannotAnswerMsg ==
  <<"I ", "cannot answer", " this query with the current restrictions as ",
    "no relevant documents", " were found or searched.">>

KnowledgeApologyMsg ==
  <<"Sorry, ", "an error occurred", " while trying to answer from general knowledge.">>

NoConclusiveMsg == <<"I could not find a conclusive answer from available sources.">>

UnableMsg ==
  <<"I'm sorry, I was unable to process your request fully or find a conclusive answer.">>

\* x or 'N/A'
OrNA(o) == IF Truthy(o) THEN o[1] ELSE <<"N/A">>

\* Mutant: the fallback string without the knowledge answer.
SynthesisFallbackMsg_DocOnly(answer_docs, answer_general) ==
  <<"Sorry, ", "an error occurred", " while combining information. From documents: ">>
    \o OrNA(answer_docs) \o <<".">>

SynthesisFallbackMsg(answer_docs, answer_general) ==
  <<"Sorry, ", "an error occurred", " while combining information. From documents: ">>
    \o OrNA(answer_docs) \o <<". From general knowledge: ">>
    \o OrNA(answer_general) \o <<".">>

\* f"An error occurred: {error_message}"
ErrorTemplate(err) == <<"An error occurred", ": ">> \o err

\* f"I apologize, an error occurred: {error_msg}"
ApologyTemplate(err) == <<"I apologize", ", ", "an error occurred", ": ">> \o err

\* f"<prefix>{str(e)[:100]}"
ErrorText(prefix, e) == <<prefix>> \o Prefix(e, ErrTextLimit)

\* ---------------------------------------------------------------- citations
\* One match of r"\[Source:\s*(?P<file>[^,]+),\s*Page:\s*(?P<page>\d+)\s*]":
\* the (file.strip(), int(page)) of a marker token, None for any other token.
\* The labels are case-sensitive; blanks and leading zeros do not matter.
CitationOf(tok) ==
  CASE tok = "[Source: paper1.pdf, Page: 4]" ->
         Some([source_file |-> "paper1.pdf", page_number |-> 4])
    [] tok = "[Source:paper1.pdf , Page: 04 ]" ->
         Some([source_file |-> "paper1.pdf", page_number |-> 4])
    [] tok = "[Source: paper1.pdf, Page: 5]" ->
         Some([source_file |-> "paper1.pdf", page_number |-> 5])
    [] tok = "[Source: notes.pdf, Page: 1]" ->
         Some([source_file |-> "notes.pdf", page_number |-> 1])
    [] OTHER -> None

\* re.finditer over the answer: the matches in text order.
RECURSIVE CitationsFound(_)
CitationsFound(text) ==
  IF text = << >> THEN << >>
  ELSE CitationOf(Head(text)) \o CitationsFound(Tail(text))

InSeq(x, s) == \E i \in 1..Len(s) : s[i] = x

\* A loop without the seen-set: every match is kept.
UniqueCitations_KeepAll(found, unique) == unique \o found

\* The seen-set loop: keep the first occurrence of each (file, page).
RECURSIVE UniqueCitations(_, _)
UniqueCitations(found, unique) ==
  IF found = << >> THEN unique
  ELSE UniqueCitations(Tail(found),
         IF InSeq(Head(found), unique) THEN unique ELSE Append(unique, Head(found)))

ExtractCitations(answer) == UniqueCitations(CitationsFound(answer), << >>)

\* ------------------------------------------------------- the environment
\* The text of the exception a failed language-model call raises.
LLMError == <<"429 quota exceeded">>

\* json.loads on text that is not JSON.
JSONDecodeError == <<"Expecting value: line 1 column 1 (char 0)">>

\* None.get(...)
AttributeError == <<"'NoneType' object has no attribute 'get'">>

\* A model reply that is meant to be JSON: an optional opening fence, the
\* payload, an optional closing fence ("<fence>" stands for three backticks).  valid says whether the payload alone
\* is JSON, obj is what it parses to.
JsonReply(open, close, valid, obj) ==
  [open |-> open, close |-> close, valid |-> valid, obj |-> obj]

\* The fence stripping before json.loads (nodes.py lines 61-65, 264-268):
\* with an opening fence the last three characters are cut as well, so the
\* result is the payload only when the closing fence is there; without an
\* opening fence nothing is cut.
StripFence(r) ==
  IF r.open \in {"<fence>json", "<fence>"}
  THEN [valid |-> r.valid /\ r.close = "<fence>", obj |-> r.obj]
  ELSE [valid |-> r.valid /\ r.close = "", obj |-> r.obj]

\* The objects the preprocess prompt asks for (prompts.py lines 29-44); a key
\* may be missing, explicit_filenames and value_query_intent may be null.
PreprocessObjects ==
  [retrieval_query : {None, Some("rewritten query")},
   external_knowledge_forbidden : {None, Some(TRUE), Some(FALSE)},
   explicit_filenames : {None, Some(<< >>), Some(<<"Paper1.PDF">>),
                         Some(<<"Paper1.PDF", "notes.pdf">>)},
   value_query_intent : {"missing", "null", "empty", "true", "false"}]

SamplePreprocessObject ==
  [retrieval_query |-> Some("rewritten query"),
   external_knowledge_forbidden |-> Some(FALSE),
   explicit_filenames |-> Some(<<"Paper1.PDF">>),
   value_query_intent |-> "true"]

\* What the preprocess call can produce: an exception, or a reply.
PreprocessOutcomes ==
  {[kind |-> "raise", exc |-> LLMError, reply |-> JsonReply("", "", FALSE, SamplePreprocessObject)]}
  \cup {[kind |-> "reply", exc |-> << >>, reply |-> JsonReply("", "", TRUE, o)] :
          o \in PreprocessObjects}
  \cup {[kind |-> "reply", exc |-> << >>, reply |-> JsonReply(f[1], f[2], f[3], SamplePreprocessObject)] :
          f \in {<<"<fence>json", "<fence>", TRUE>>, <<"<fence>", "<fence>", TRUE>>,
                 <<"<fence>json", "", TRUE>>, <<"", "", FALSE>>}}

\* value_query_intent.get("is_value_query", False), for a non-null intent.
IsValueQuery(intent) == intent = "true"

\* ------------------------------------------------------------ GraphState
Queries == {"What is the tensile strength in Paper1.PDF?"}

Histories ==
  {<< >>,
   <<[role |-> "human", content |-> <<"hello">>],
     [role |-> "ai", content |-> <<"hi">>]>>}

\* main.py lines 123-141; final_from is a ghost field recording which
\* assignment last wrote final_response_for_user.
InitialState(query, history) ==
  [original_query |-> query,
   chat_history |-> history,
   processed_query |-> "",
   target_files_explicit |-> None,
   inferred_target_files |-> None,
   retrieval_filter |-> None,
   retrieved_docs |-> << >>,
   query_requires_doc_search |-> FALSE,
   doc_search_performed |-> FALSE,
   use_external_knowledge_explicitly_forbidden |-> FALSE,
   should_compare_with_general_knowledge |-> FALSE,
   answer_from_docs_only |-> None,
   answer_from_general_knowledge |-> None,
   synthesized_answer |-> None,
   final_response_for_user |-> << >>,
   citations |-> << >>,
   error_message |-> None,
   final_from |-> "unset"]

\* --------------------------------------------------------- preprocess node
\* Mutant: the filter is built from the names as given, not lower-cased.
BuildFilter_Raw(names) == Some(names)

\* {"normalized_filter_filename": {"$in": normalized_query_filenames}}
BuildFilter(names) == Some(NormalizeFilenames(names))

\* The except clause of preprocess_query_node.
PreprocessExcept(s, e) ==
  [s EXCEPT !.processed_query = s.original_query,
            !.error_message = Some(ErrorText("Error during query preprocessing: ", e))]

\* Mutant: the rewritten query is stored over the original one as well.
PreprocessParsed_RewritesOriginal(s, obj) ==
  [s EXCEPT
     !.original_query =
        IF obj.retrieval_query = None THEN s.original_query ELSE obj.retrieval_query[1],
     !.processed_query =
        IF obj.retrieval_query = None THEN s.original_query ELSE obj.retrieval_query[1],
     !.use_external_knowledge_explicitly_forbidden =
        IF obj.external_knowledge_forbidden = None THEN FALSE
        ELSE obj.external_knowledge_forbidden[1],
     !.target_files_explicit = obj.explicit_filenames,
     !.retrieval_filter =
        IF Truthy(obj.explicit_filenames) THEN BuildFilter(obj.explicit_filenames[1])
        ELSE None]

\* Lines 68-79: the writes up to the filter.
PreprocessParsed(s, obj) ==
  [s EXCEPT
     !.processed_query =
        IF obj.retrieval_query = None THEN s.original_query ELSE obj.retrieval_query[1],
     !.use_external_knowledge_explicitly_forbidden =
        IF obj.external_knowledge_forbidden = None THEN FALSE
        ELSE obj.external_knowledge_forbidden[1],
     !.target_files_explicit = obj.explicit_filenames,
     !.retrieval_filter =
        IF Truthy(obj.explicit_filenames) THEN BuildFilter(obj.explicit_filenames[1])
        ELSE None]

\* Mutant: query_requires_doc_search follows the value-query flag alone; a
\* named file does not force it.
PreprocessIntent_FlagOnly(s, intent) ==
  IF intent = "null" THEN PreprocessExcept(s, AttributeError)
  ELSE [s EXCEPT !.query_requires_doc_search = IsValueQuery(intent),
                 !.retrieval_filter =
                    IF IsValueQuery(intent) /\ ~Truthy(s.target_files_explicit)
                    THEN None ELSE @]

\* Lines 81-89.  A null value_query_intent raises at the first .get that is
\* evaluated: in the condition of line 82 when no file was named, at line 85
\* (after line 83 has run) when one was.
PreprocessIntent(s, intent) ==
  LET files == Truthy(s.target_files_explicit)
      isnull == intent = "null"
  IN  IF ~files /\ isnull THEN PreprocessExcept(s, AttributeError)
      ELSE IF files \/ IsValueQuery(intent)
      THEN LET s1 == [s EXCEPT !.query_requires_doc_search = TRUE]
           IN  IF isnull THEN PreprocessExcept(s1, AttributeError)
               ELSE IF IsValueQuery(intent) /\ ~files
                    THEN [s1 EXCEPT !.retrieval_filter = None]
                    ELSE s1
      ELSE [s EXCEPT !.query_requires_doc_search = FALSE]

\* The value of parsed_response after line 65, None when the call or
\* json.loads raised.
ParsedResponse(out) ==
  IF out.kind = "raise" \/ ~StripFence(out.reply).valid THEN None
  ELSE Some(StripFence(out.reply).obj)

\* How the try block of lines 52-89 came out: the call raised, json.loads
\* raised, a .get on a null value_query_intent raised, or the block completed.
PreprocessResult(out) ==
  IF out.kind = "raise" THEN "raised"
  ELSE IF ~StripFence(out.reply).valid THEN "unparsable"
  ELSE IF StripFence(out.reply).obj.value_query_intent = "null" THEN "malformed"
  ELSE "ok"

preprocess_query_node(s, out) ==
  IF out.kind = "raise" THEN PreprocessExcept(s, out.exc)
  ELSE LET p == StripFence(out.reply)
       IN  IF ~p.valid THEN PreprocessExcept(s, JSONDecodeError)
           ELSE PreprocessIntent(PreprocessParsed(s, p.obj), p.obj.value_query_intent)

\* ---------------------------------------------------------- retrieval node
\* One stored passage, as query_store formats it.
Passage(i) ==
  [content |-> <<"passage text">>,
   metadata |-> [source_file |-> "paper1.pdf", page_number |-> 3 + i,
                 chunk_type |-> "text"],
   distance |-> i]

\* What collection.query can produce: an exception, or the ranked passages.
StoreOutcomes ==
  {[kind |-> "raise", docs |-> << >>]}
  \cup {[kind |-> "ok", docs |-> [i \in 1..n |-> Passage(i)]] : n \in 0..MaxDocs}

\* Mutant: an exception of the store is passed on to the caller.
query_store_Propagates(n_results, out) ==
  IF out.kind = "raise" THEN [raised |-> TRUE, result |-> << >>]
  ELSE [raised |-> FALSE, result |-> Prefix(out.docs, n_results)]

\* VectorStoreManager.query_store: at most n_results passages; any exception
\* of the store is caught and answered with the empty list, so the call
\* itself never raises.
query_store(n_results, out) ==
  IF out.kind = "raise" THEN [raised |-> FALSE, result |-> << >>]
  ELSE [raised |-> FALSE, result |-> Prefix(out.docs, n_results)]

\* How collection.query came out.
StoreResult(out) == IF out.kind = "raise" THEN "raised" ELSE "ok"

\* Mutant: the search is made whatever the preprocess stage decided.
ShouldSearch_Always(s) == TRUE

\* Lines 107-108 with line 98.
ShouldSearch(s) == s.query_requires_doc_search \/ Truthy(s.target_files_explicit)

\* Lines 100-105: the filter is rebuilt when files are named and none is set.
RetrievalFilterOwed(s) ==
  IF Truthy(s.target_files_explicit) /\ ~IsSet(s.retrieval_filter)
  THEN [s EXCEPT !.retrieval_filter = BuildFilter(s.target_files_explicit[1])]
  ELSE s

\* Whether the node calls the vector store.
RetrieveCalls(s) == ShouldSearch(s)

\* The arguments of that call.
RetrieveArgs(s) ==
  [query_text |-> s.processed_query,
   n_results |-> TOP_K_RETRIEVAL,
   filter_metadata |-> RetrievalFilterOwed(s).retrieval_filter]

\* Mutant: the skipped search is marked as performed.
retrieve_documents_node_SkipMarksPerformed(s, out) ==
  LET s1 == RetrievalFilterOwed(s)
  IN  IF ~ShouldSearch(s)
      THEN [s1 EXCEPT !.retrieved_docs = << >>, !.doc_search_performed = TRUE]
      ELSE [s1 EXCEPT !.retrieved_docs = query_store(TOP_K_RETRIEVAL, out).result,
                      !.doc_search_performed = TRUE]

retrieve_documents_node(s, out) ==
  LET s1 == RetrievalFilterOwed(s)
  IN  IF ~ShouldSearch(s)
      THEN [s1 EXCEPT !.retrieved_docs = << >>, !.doc_search_performed = FALSE]
      ELSE LET r == query_store(TOP_K_RETRIEVAL, out)
           IN  IF r.raised
               THEN [s1 EXCEPT !.retrieved_docs = << >>,
                               !.doc_search_performed = FALSE,
                               !.error_message =
                                  Some(ErrorText("Error retrieving documents: ", << >>))]
               ELSE [s1 EXCEPT !.retrieved_docs = r.result,
                               !.doc_search_performed = TRUE]

\* --------------------------------------------------------- doc-answer node
\* Texts the model may return as the answer from the documents.
DocAnswerTexts ==
  {<< >>,
   <<"The tensile strength is 40 MPa ", "[Source: paper1.pdf, Page: 4]">>,
   <<"The provided documents do ", "not contain sufficient information",
     " to answer this query.">>,
   <<"I ", "couldn't find relevant information", " beyond ",
     "[Source: paper1.pdf, Page: 4]">>,
   <<"Cannot answer", " from ", "[Source: paper1.pdf, Page: 4]",
     "[Source: notes.pdf, Page: 1]", "[Source:paper1.pdf , Page: 04 ]">>}

TextOutcomes(texts) ==
  {[kind |-> "raise", exc |-> LLMError, text |-> << >>]}
  \cup {[kind |-> "reply", exc |-> << >>, text |-> t] : t \in texts}

\* How a text-generating call came out.
TextResult(out) == IF out.kind = "raise" THEN "raised" ELSE "ok"

DocsWereExpected(s) == s.query_requires_doc_search \/ Truthy(s.target_files_explicit)

\* Whether the node calls the language model.
DocAnswerCalls(s) == s.retrieved_docs # << >>

\* Mutant: with no passages the fixed message is set whether or not a search
\* was performed.
generate_answer_from_docs_node_AlwaysMessage(s, out) ==
  IF s.retrieved_docs = << >>
  THEN [s EXCEPT !.answer_from_docs_only = Some(NoRelevantDocsMsg),
                 !.citations = << >>]
  ELSE IF out.kind = "raise"
  THEN [s EXCEPT !.answer_from_docs_only = Some(DocApologyMsg),
                 !.citations = << >>,
                 !.error_message =
                    Some(ErrorText("Error generating answer from docs: ", out.exc))]
  ELSE [s EXCEPT !.answer_from_docs_only = Some(out.text),
                 !.citations = ExtractCitations(out.text)]

generate_answer_from_docs_node(s, out) ==
  IF s.retrieved_docs = << >>
  THEN [s EXCEPT !.answer_from_docs_only =
                    IF s.doc_search_performed /\ DocsWereExpected(s)
                    THEN Some(NoRelevantDocsMsg) ELSE None,
                 !.citations = << >>]
  ELSE IF out.kind = "raise"
  THEN [s EXCEPT !.answer_from_docs_only = Some(DocApologyMsg),
                 !.citations = << >>,
                 !.error_message =
                    Some(ErrorText("Error generating answer from docs: ", out.exc))]
  ELSE [s EXCEPT !.answer_from_docs_only = Some(out.text),
                 !.citations = ExtractCitations(out.text)]

\* ------------------------------------------------------------- the router
\* What the necessity check can produce.
NecessityOutcomes ==
  {[kind |-> "raise", exc |-> LLMError, reply |-> JsonReply("", "", FALSE, [needs_general_knowledge |-> None])]}
  \cup {[kind |-> "reply", exc |-> << >>, reply |-> JsonReply("", "", TRUE, [needs_general_knowledge |-> n])] :
          n \in {None, Some(TRUE), Some(FALSE)}}
  \cup {[kind |-> "reply", exc |-> << >>, reply |-> JsonReply(f[1], f[2], f[3], [needs_general_knowledge |-> Some(FALSE)])] :
          f \in {<<"<fence>json", "<fence>", TRUE>>, <<"", "", FALSE>>}}

\* Lines 235-236.
DocSearchPerformedAndExpected(s) ==
  s.doc_search_performed
    /\ (s.query_requires_doc_search \/ Truthy(s.target_files_explicit))

\* Mutant: the test with the three phrases of the synthesis selection, without
\* "couldn't find relevant information".
NoConclusiveDocAnswer_ThreePhrases(doc_ans) ==
  ~Truthy(doc_ans) \/ AnyPhrase(doc_ans[1], SelectionFailurePhrases)

\* Lines 240-242.
NoConclusiveDocAnswer(doc_ans) ==
  ~Truthy(doc_ans) \/ AnyPhrase(doc_ans[1], RouterFailurePhrases)

\* Mutant: the document answer is tested with "is not None" instead of for
\* truth, so an empty answer is taken as the final response.
RouteRestricted_NotNone(s) ==
  IF s.answer_from_docs_only # None
  THEN [s EXCEPT !.final_response_for_user = s.answer_from_docs_only[1],
                 !.final_from = "doc"]
  ELSE IF s.doc_search_performed
          /\ (s.query_requires_doc_search \/ Truthy(s.target_files_explicit))
  THEN [s EXCEPT !.final_response_for_user = CouldntFindMsg,
                 !.final_from = "restricted"]
  ELSE [s EXCEPT !.final_response_for_user = RestrictedCannotAnswerMsg,
                 !.final_from = "restricted"]

\* Lines 223-231: the restricted short-circuit.
RouteRestricted(s) ==
  IF Truthy(s.answer_from_docs_only)
  THEN [s EXCEPT !.final_response_for_user = s.answer_from_docs_only[1],
                 !.final_from = "doc"]
  ELSE IF s.doc_search_performed
          /\ (s.query_requires_doc_search \/ Truthy(s.target_files_explicit))
  THEN [s EXCEPT !.final_response_for_user = CouldntFindMsg,
                 !.final_from = "restricted"]
  ELSE [s EXCEPT !.final_response_for_user = RestrictedCannotAnswerMsg,
                 !.final_from = "restricted"]

\* Mutant: the conservative default is taken whatever the check replied.
RouteNecessity_AlwaysCompare(s, out) ==
  [state |-> [s EXCEPT !.should_compare_with_general_knowledge = TRUE],
   next |-> "generate_general_knowledge"]

\* Mutant: a failed check finalizes with the doc answer instead of asking
\* for the knowledge answer.
RouteNecessity_FailureFinalizes(s, out) ==
  LET p == StripFence(out.reply)
  IN  IF out.kind # "raise" /\ p.valid /\ p.obj.needs_general_knowledge = Some(TRUE)
      THEN [state |-> [s EXCEPT !.should_compare_with_general_knowledge = TRUE],
            next |-> "generate_general_knowledge"]
      ELSE [state |-> [s EXCEPT !.final_response_for_user = s.answer_from_docs_only[1],
                                !.final_from = "doc"],
            next |-> "format_final_response"]

\* Lines 255-281: the necessity check on a conclusive document answer.
RouteNecessity(s, out) ==
  LET p == StripFence(out.reply)
      compare == [state |-> [s EXCEPT !.should_compare_with_general_knowledge = TRUE],
                  next |-> "generate_general_knowledge"]
  IN  IF out.kind = "raise" \/ ~p.valid THEN compare
      ELSE IF p.obj.needs_general_knowledge = Some(TRUE) THEN compare
      ELSE [state |-> [s EXCEPT !.final_response_for_user = s.answer_from_docs_only[1],
                                !.final_from = "doc"],
            next |-> "format_final_response"]

\* How the try block of lines 257-281 came out: the call raised, json.loads
\* raised, or the reply was read as needing general knowledge or not.
NecessityResult(out) ==
  IF out.kind = "raise" THEN "raised"
  ELSE IF ~StripFence(out.reply).valid THEN "unparsable"
  ELSE IF StripFence(out.reply).obj.needs_general_knowledge = Some(TRUE) THEN "needed"
  ELSE "not_needed"

\* Mutant: the router without its test of the restriction flag.
RouterRule_NoRestriction(s) ==
  IF IsSet(s.error_message) THEN "error"
  ELSE IF DocSearchPerformedAndExpected(s) /\ NoConclusiveDocAnswer(s.answer_from_docs_only)
  THEN "inconclusive"
  ELSE IF ~s.doc_search_performed /\ ~Truthy(s.answer_from_docs_only) THEN "no_search"
  ELSE IF Truthy(s.answer_from_docs_only) /\ ~NoConclusiveDocAnswer(s.answer_from_docs_only)
  THEN "necessity"
  ELSE "fallback"

\* Mutant: the necessity check is made on any doc answer that has text,
\* before the test for a conclusive one.
RouterRule_NecessityFirst(s) ==
  IF IsSet(s.error_message) THEN "error"
  ELSE IF s.use_external_knowledge_explicitly_forbidden THEN "restricted"
  ELSE IF Truthy(s.answer_from_docs_only) THEN "necessity"
  ELSE IF DocSearchPerformedAndExpected(s) /\ NoConclusiveDocAnswer(s.answer_from_docs_only)
  THEN "inconclusive"
  ELSE IF ~s.doc_search_performed /\ ~Truthy(s.answer_from_docs_only) THEN "no_search"
  ELSE "fallback"

\* Which rule of the router applies to a state.
RouterRule(s) ==
  IF IsSet(s.error_message) THEN "error"
  ELSE IF s.use_external_knowledge_explicitly_forbidden THEN "restricted"
  ELSE IF DocSearchPerformedAndExpected(s) /\ NoConclusiveDocAnswer(s.answer_from_docs_only)
  THEN "inconclusive"
  ELSE IF ~s.doc_search_performed /\ ~Truthy(s.answer_from_docs_only) THEN "no_search"
  ELSE IF Truthy(s.answer_from_docs_only) /\ ~NoConclusiveDocAnswer(s.answer_from_docs_only)
  THEN "necessity"
  ELSE "fallback"

\* Whether the router calls the language model.
RouterCalls(s) == RouterRule(s) = "necessity"

\* Mutant: with no search and no doc answer the router goes to the format
\* stage at once.
decide_general_knowledge_route_node_NoSearchToFormat(s, out) ==
  LET rule == RouterRule(s)
      general == [state |-> [s EXCEPT !.should_compare_with_general_knowledge = FALSE],
                  next |-> "generate_general_knowledge"]
  IN  CASE rule = "error" -> [state |-> s, next |-> "handle_error"]
        [] rule = "restricted" ->
             [state |-> RouteRestricted(s), next |-> "format_final_response"]
        [] rule = "inconclusive" -> general
        [] rule = "no_search" -> [state |-> s, next |-> "format_final_response"]
        [] rule = "necessity" -> RouteNecessity(s, out)
        [] OTHER ->
             IF Truthy(s.answer_from_docs_only)
             THEN [state |-> [s EXCEPT !.final_response_for_user = s.answer_from_docs_only[1],
                                       !.final_from = "doc"],
                   next |-> "format_final_response"]
             ELSE general

\* Mutant: an inconclusive document answer is sent to the knowledge stage
\* with the comparison asked for.
decide_general_knowledge_route_node_InconclusiveCompares(s, out) ==
  LET rule == RouterRule(s)
      general == [state |-> [s EXCEPT !.should_compare_with_general_knowledge = FALSE],
                  next |-> "generate_general_knowledge"]
  IN  CASE rule = "error" -> [state |-> s, next |-> "handle_error"]
        [] rule = "restricted" ->
             [state |-> RouteRestricted(s), next |-> "format_final_response"]
        [] rule = "inconclusive" ->
             [state |-> [s EXCEPT !.should_compare_with_general_knowledge = TRUE],
              next |-> "generate_general_knowledge"]
        [] rule = "no_search" -> general
        [] rule = "necessity" -> RouteNecessity(s, out)
        [] OTHER ->
             IF Truthy(s.answer_from_docs_only)
             THEN [state |-> [s EXCEPT !.final_response_for_user = s.answer_from_docs_only[1],
                                       !.final_from = "doc"],
                   next |-> "format_final_response"]
             ELSE general

\* The router: the state as it leaves it and the value it returns.
decide_general_knowledge_route_node(s, out) ==
  LET rule == RouterRule(s)
      general == [state |-> [s EXCEPT !.should_compare_with_general_knowledge = FALSE],
                  next |-> "generate_general_knowledge"]
  IN  CASE rule = "error" -> [state |-> s, next |-> "handle_error"]
        [] rule = "restricted" ->
             [state |-> RouteRestricted(s), next |-> "format_final_response"]
        [] rule = "inconclusive" -> general
        [] rule = "no_search" -> general
        [] rule = "necessity" -> RouteNecessity(s, out)
        [] OTHER ->
             IF Truthy(s.answer_from_docs_only)
             THEN [state |-> [s EXCEPT !.final_response_for_user = s.answer_from_docs_only[1],
                                       !.final_from = "doc"],
                   next |-> "format_final_response"]
             ELSE general

\* --------------------------------------------------------- knowledge node
KnowledgeTexts ==
  {<< >>, <<"Quantum tunneling is a quantum mechanical phenomenon.">>}

generate_general_knowledge_answer_node(s, out) ==
  IF out.kind = "raise"
  THEN [s EXCEPT !.answer_from_general_knowledge = Some(KnowledgeApologyMsg),
                 !.error_message =
                    Some(ErrorText("Error generating general knowledge: ", out.exc))]
  ELSE [s EXCEPT !.answer_from_general_knowledge = Some(out.text)]

\* --------------------------------------------------------- synthesis node
SynthesisTexts ==
  {<< >>,
   <<"Combined: 40 MPa ", "[Source: paper1.pdf, Page: 4]", " and background.">>,
   <<"I apologize", " for the confusion; the strength is 40 MPa.">>,
   <<"An error occurred", " in the cited experiment, see the corrected value.">>}

\* Line 316 negated: the merge runs.
SynthesisCalls(s) ==
  s.should_compare_with_general_knowledge
    /\ Truthy(s.answer_from_docs_only) /\ Truthy(s.answer_from_general_knowledge)

\* Lines 317-330: the selection when no merge runs.
SynthesisSelect(s) ==
  IF Truthy(s.answer_from_docs_only)
     /\ ~AnyPhrase(s.answer_from_docs_only[1], SelectionFailurePhrases)
  THEN [s EXCEPT !.final_response_for_user = s.answer_from_docs_only[1],
                 !.final_from = "doc"]
  ELSE IF Truthy(s.answer_from_general_knowledge)
  THEN [s EXCEPT !.final_response_for_user = s.answer_from_general_knowledge[1],
                 !.final_from = "knowledge",
                 !.citations = << >>]
  ELSE IF s.final_response_for_user # << >> THEN s
  ELSE IF Truthy(s.answer_from_docs_only)
  THEN [s EXCEPT !.final_response_for_user = s.answer_from_docs_only[1],
                 !.final_from = "doc"]
  ELSE [s EXCEPT !.final_response_for_user = NoConclusiveMsg,
                 !.final_from = "fixed"]

\* Mutant: the selection stores the answer it picks as the synthesized one.
synthesize_answers_node_SelectionSetsSynthesized(s, out) ==
  IF ~SynthesisCalls(s)
  THEN [SynthesisSelect(s) EXCEPT
          !.synthesized_answer = Some(SynthesisSelect(s).final_response_for_user)]
  ELSE IF out.kind = "raise"
  THEN [s EXCEPT !.final_response_for_user =
                    SynthesisFallbackMsg(s.answer_from_docs_only,
                                         s.answer_from_general_knowledge),
                 !.final_from = "synthesis_fallback",
                 !.error_message =
                    Some(ErrorText("Error synthesizing answers: ", out.exc))]
  ELSE [s EXCEPT !.synthesized_answer = Some(out.text),
                 !.final_response_for_user = out.text,
                 !.final_from = "synthesized"]

\* Mutant: a successful merge drops the citations of the doc answer.
synthesize_answers_node_MergeClearsCitations(s, out) ==
  IF ~SynthesisCalls(s) THEN SynthesisSelect(s)
  ELSE IF out.kind = "raise"
  THEN [s EXCEPT !.final_response_for_user =
                    SynthesisFallbackMsg(s.answer_from_docs_only,
                                         s.answer_from_general_knowledge),
                 !.final_from = "synthesis_fallback",
                 !.error_message =
                    Some(ErrorText("Error synthesizing answers: ", out.exc))]
  ELSE [s EXCEPT !.synthesized_answer = Some(out.text),
                 !.final_response_for_user = out.text,
                 !.final_from = "synthesized",
                 !.citations = << >>]

synthesize_answers_node(s, out) ==
  IF ~SynthesisCalls(s) THEN SynthesisSelect(s)
  ELSE IF out.kind = "raise"
  THEN [s EXCEPT !.final_response_for_user =
                    SynthesisFallbackMsg(s.answer_from_docs_only,
                                         s.answer_from_general_knowledge),
                 !.final_from = "synthesis_fallback",
                 !.error_message =
                    Some(ErrorText("Error synthesizing answers: ", out.exc))]
  ELSE [s EXCEPT !.synthesized_answer = Some(out.text),
                 !.final_response_for_user = out.text,
                 !.final_from = "synthesized"]

\* ------------------------------------------------------------ format node
\* Line 357: the final response already reads as an error message.
ReadsAsError(text) ==
  LowerStartsWith(text, "an error occurred") \/ LowerStartsWith(text, "i apologize")

\* Mutant: the synthesized answer is tested with "is not None" instead of
\* for truth, so an empty synthesis is taken as the final response.
FormatFallback_SynthesizedNotNone(s) ==
  IF s.synthesized_answer # None
  THEN [s EXCEPT !.final_response_for_user = s.synthesized_answer[1],
                 !.final_from = "synthesized"]
  ELSE IF Truthy(s.answer_from_docs_only)
          /\ ~AnyPhrase(s.answer_from_docs_only[1], SelectionFailurePhrases)
  THEN [s EXCEPT !.final_response_for_user = s.answer_from_docs_only[1],
                 !.final_from = "doc"]
  ELSE IF Truthy(s.answer_from_general_knowledge)
  THEN [s EXCEPT !.final_response_for_user = s.answer_from_general_knowledge[1],
                 !.final_from = "knowledge",
                 !.citations = << >>]
  ELSE IF Truthy(s.answer_from_docs_only)
  THEN [s EXCEPT !.final_response_for_user = s.answer_from_docs_only[1],
                 !.final_from = "doc"]
  ELSE [s EXCEPT !.final_response_for_user = UnableMsg,
                 !.final_from = "fixed",
                 !.citations = << >>]

\* Mutant: the knowledge answer becomes final without the citations being
\* cleared.
FormatFallback_KeepsCitations(s) ==
  IF Truthy(s.synthesized_answer)
  THEN [s EXCEPT !.final_response_for_user = s.synthesized_answer[1],
                 !.final_from = "synthesized"]
  ELSE IF Truthy(s.answer_from_docs_only)
          /\ ~AnyPhrase(s.answer_from_docs_only[1], SelectionFailurePhrases)
  THEN [s EXCEPT !.final_response_for_user = s.answer_from_docs_only[1],
                 !.final_from = "doc"]
  ELSE IF Truthy(s.answer_from_general_knowledge)
  THEN [s EXCEPT !.final_response_for_user = s.answer_from_general_knowledge[1],
                 !.final_from = "knowledge"]
  ELSE IF Truthy(s.answer_from_docs_only)
  THEN [s EXCEPT !.final_response_for_user = s.answer_from_docs_only[1],
                 !.final_from = "doc"]
  ELSE [s EXCEPT !.final_response_for_user = UnableMsg,
                 !.final_from = "fixed",
                 !.citations = << >>]

\* Lines 360-373: the fallback when no response is set.
FormatFallback(s) ==
  IF Truthy(s.synthesized_answer)
  THEN [s EXCEPT !.final_response_for_user = s.synthesized_answer[1],
                 !.final_from = "synthesized"]
  ELSE IF Truthy(s.answer_from_docs_only)
          /\ ~AnyPhrase(s.answer_from_docs_only[1], SelectionFailurePhrases)
  THEN [s EXCEPT !.final_response_for_user = s.answer_from_docs_only[1],
                 !.final_from = "doc"]
  ELSE IF Truthy(s.answer_from_general_knowledge)
  THEN [s EXCEPT !.final_response_for_user = s.answer_from_general_knowledge[1],
                 !.final_from = "knowledge",
                 !.citations = << >>]
  ELSE IF Truthy(s.answer_from_docs_only)
  THEN [s EXCEPT !.final_response_for_user = s.answer_from_docs_only[1],
                 !.final_from = "doc"]
  ELSE [s EXCEPT !.final_response_for_user = UnableMsg,
                 !.final_from = "fixed",
                 !.citations = << >>]

format_final_response_node(s) ==
  IF IsSet(s.error_message) /\ ~ReadsAsError(s.final_response_for_user)
  THEN [s EXCEPT !.final_response_for_user = ErrorTemplate(s.error_message[1]),
                 !.final_from = "error_template",
                 !.citations = << >>]
  ELSE IF s.final_response_for_user = << >> THEN FormatFallback(s)
  ELSE s

\* ------------------------------------------------------ error-handling node
\* state.get('error_message', default): the key is always there, so a None
\* value is what is formatted.
handle_error_node(s) ==
  [s EXCEPT !.final_response_for_user =
               ApologyTemplate(IF IsSet(s.error_message) THEN s.error_message[1]
                               ELSE <<"None">>),
            !.final_from = "apology",
            !.citations = << >>]

\* --------------------------------------------------------- the stage graph
\* Mutant: the router's knowledge value leads back to the retrieval node, a
\* second attempt at the documents.
RouterEdges_RetryRetrieval ==
  [generate_general_knowledge |-> "retrieve_documents",
   format_final_response |-> "format_final_response",
   end_error |-> "handle_error"]

\* graph_builder.py lines 37-45: the values of the router the graph can
\* follow, and the node each leads to.
RouterEdges ==
  [generate_general_knowledge |-> "generate_general_knowledge",
   format_final_response |-> "format_final_response",
   end_error |-> "handle_error"]

\* graph_builder.py lines 47-55: the edge taken after the knowledge node.
KnowledgeEdges ==
  [synthesize_answers |-> "synthesize_answers",
   format_final_response |-> "format_final_response"]

\* Mutant: after a failed knowledge call the edge asks for the error handler,
\* a value its map does not have.
AfterKnowledge_ErrorToHandler(s) ==
  IF IsSet(s.error_message) THEN "handle_error"
  ELSE IF Truthy(s.answer_from_docs_only) /\ s.should_compare_with_general_knowledge
  THEN "synthesize_answers" ELSE "format_final_response"

\* The lambda of line 50.
AfterKnowledge(s) ==
  IF Truthy(s.answer_from_docs_only) /\ s.should_compare_with_general_knowledge
  THEN "synthesize_answers" ELSE "format_final_response"

\* A conditional edge looks the returned value up in its map; a value that
\* is not a key of the map raises out of the driving loop (KeyError).
FollowEdge(map, value) == IF value \in DOMAIN map THEN map[value] ELSE "raised"

VARIABLES
  state,      \* the GraphState of the pass
  pc,         \* the node to run next, "END", or "raised"
  stages,     \* the nodes and the router, in the order they ran
  calls,      \* the gateway calls made, in order
  vsm_calls,  \* the arguments of each vector-store call, and whether the store failed
  parsed_response,  \* what json.loads returned in the preprocess node, None if it did not
  results,    \* how each gateway call of calls came out, in the same order
  chat_history,  \* the caller's list of messages (run_cli)
  user_input  \* what the user typed last

vars == <<state, pc, stages, calls, vsm_calls, parsed_response, results,
          chat_history, user_input>>

\* The caller's variables, which no stage touches.
caller == <<chat_history, user_input>>

Init ==
  /\ state \in {InitialState(q, h) : q \in Queries, h \in Histories}
  /\ pc = "preprocess_query"
  /\ stages = << >>
  /\ calls = << >>
  /\ vsm_calls = << >>
  /\ parsed_response = None
  /\ results = << >>
  /\ chat_history = state.chat_history
  /\ user_input = state.original_query

Ran(node) == stages' = Append(stages, node)

Called(made, name) == calls' = IF made THEN Append(calls, name) ELSE calls

Returned(made, result) == results' = IF made THEN Append(results, result) ELSE results

Preprocess ==
  /\ pc = "preprocess_query"
  /\ \E out \in PreprocessOutcomes :
        /\ state' = preprocess_query_node(state, out)
        /\ parsed_response' = ParsedResponse(out)
        /\ Returned(TRUE, PreprocessResult(out))
  /\ Called(TRUE, "llm:preprocess_query")
  /\ Ran("preprocess_query")
  /\ pc' = "retrieve_documents"
  /\ UNCHANGED vsm_calls
  /\ UNCHANGED caller

Retrieve ==
  /\ pc = "retrieve_documents"
  /\ \E out \in StoreOutcomes :
        /\ state' = retrieve_documents_node(state, out)
        /\ vsm_calls' = IF RetrieveCalls(state)
                        THEN Append(vsm_calls, [args |-> RetrieveArgs(state),
                                                store_failed |-> out.kind = "raise"])
                        ELSE vsm_calls
        /\ Returned(RetrieveCalls(state), StoreResult(out))
  /\ Called(RetrieveCalls(state), "vsm:query_store")
  /\ Ran("retrieve_documents")
  /\ pc' = "generate_answer_from_docs"
  /\ UNCHANGED parsed_response
  /\ UNCHANGED caller

GenerateAnswerFromDocs ==
  /\ pc = "generate_answer_from_docs"
  /\ \E out \in TextOutcomes(DocAnswerTexts) :
        /\ state' = generate_answer_from_docs_node(state, out)
        /\ Returned(DocAnswerCalls(state), TextResult(out))
  /\ Called(DocAnswerCalls(state), "llm:generate_answer_from_docs")
  /\ Ran("generate_answer_from_docs")
  /\ pc' = "decide_route"
  /\ UNCHANGED <<vsm_calls, parsed_response>>
  /\ UNCHANGED caller

\* The conditional edge after the doc-answer node: the router runs, then the
\* graph follows the value it returned.
DecideRoute ==
  /\ pc = "decide_route"
  /\ \E out \in NecessityOutcomes :
        LET r == decide_general_knowledge_route_node(state, out)
        IN  /\ state' = r.state
            /\ pc' = FollowEdge(RouterEdges, r.next)
            /\ Returned(RouterCalls(state), NecessityResult(out))
  /\ Called(RouterCalls(state), "llm:necessity_check")
  /\ Ran("decide_route")
  /\ UNCHANGED <<vsm_calls, parsed_response>>
  /\ UNCHANGED caller

\* The knowledge node and the conditional edge after it.
GenerateGeneralKnowledge ==
  /\ pc = "generate_general_knowledge"
  /\ \E out \in TextOutcomes(KnowledgeTexts) :
        /\ state' = generate_general_knowledge_answer_node(state, out)
        /\ pc' = FollowEdge(KnowledgeEdges, AfterKnowledge(state'))
        /\ Returned(TRUE, TextResult(out))
  /\ Called(TRUE, "llm:generate_general_knowledge")
  /\ Ran("generate_general_knowledge")
  /\ UNCHANGED <<vsm_calls, parsed_response>>
  /\ UNCHANGED caller

Synthesize ==
  /\ pc = "synthesize_answers"
  /\ \E out \in TextOutcomes(SynthesisTexts) :
        /\ state' = synthesize_answers_node(state, out)
        /\ Returned(SynthesisCalls(state), TextResult(out))
  /\ Called(SynthesisCalls(state), "llm:synthesize_answers")
  /\ Ran("synthesize_answers")
  /\ pc' = "format_final_response"
  /\ UNCHANGED <<vsm_calls, parsed_response>>
  /\ UNCHANGED caller

\* The two nodes with an edge to END (graph_builder.py lines 58-59).
RunTerminalNode ==
  /\ pc \in {"format_final_response", "handle_error"}
  /\ state' = IF pc = "handle_error" THEN handle_error_node(state)
              ELSE format_final_response_node(state)
  /\ Ran(pc)
  /\ pc' = "END"
  /\ UNCHANGED <<calls, vsm_calls, parsed_response, results>>
  /\ UNCHANGED caller

Next ==
  \/ Preprocess
  \/ Retrieve
  \/ GenerateAnswerFromDocs
  \/ DecideRoute
  \/ GenerateGeneralKnowledge
  \/ Synthesize
  \/ RunTerminalNode

Spec == Init /\ [][Next]_vars

\* The driving loop runs a node whenever one is due.
FairSpec == Spec /\ WF_vars(Next)

\* ------------------------------------------------------- the caller's loop
\* run_cli of main.py: one iteration per line the user types.
HumanMessage(content) == [role |-> "human", content |-> <<content>>]

AIMessage(content) == [role |-> "ai", content |-> content]

\* What the user may type besides a query.
Commands == {"exit", "quit", "clear", "  "}

\* The exception the graph raises for a router value that is not a key of the
\* conditional edge's map.
RouterKeyError == <<"'handle_error'">>

\* An exception of the console while the final panel is drawn.
ConsoleError == <<"console failure">>

\* Lines 185-190: the reply taken from the state the last node returned.
AiResponseContent(s) ==
  IF IsSet(s.error_message)
       /\ ~(Len(s.final_response_for_user) > 0
              /\ s.final_response_for_user[1] = "An error occurred")
  THEN ErrorTemplate(s.error_message[1])
  ELSE s.final_response_for_user

\* Line 197: the reply when driving the graph raised.
StreamErrorContent(exc) == <<"An error occurred during processing: ">> \o exc

\* Line 222: the reply of the loop's outer handler.
CriticalErrorContent(exc) == <<"Sorry, a critical error occurred: ">> \o exc

\* Mutant: the reply is appended before the user's message.
AppendTurn_AIFirst(history, input, content) ==
  history \o <<AIMessage(content), HumanMessage(input)>>

\* Lines 210-211 (and 221-222): the two appends that record a turn.
AppendTurn(history, input, content) ==
  history \o <<HumanMessage(input), AIMessage(content)>>

\* Mutant: a turn whose pass raised is dropped from the history.
AfterStream_DropsFailedTurn(history, input, s, raised, shown) ==
  IF raised THEN history
  ELSE AppendTurn(history, input,
                  IF shown THEN AiResponseContent(s)
                  ELSE CriticalErrorContent(ConsoleError))

\* Lines 185-222: the history after the stream has ended.  raised says
\* whether driving the graph raised, shown whether the final panel could be
\* drawn; when it could not, the outer handler records the turn.
AfterStream(history, input, s, raised, shown) ==
  IF ~shown THEN AppendTurn(history, input, CriticalErrorContent(ConsoleError))
  ELSE IF raised THEN AppendTurn(history, input, StreamErrorContent(RouterKeyError))
  ELSE AppendTurn(history, input, AiResponseContent(s))

\* The value of the pass's variables while no pass is in flight.
NoPass == InitialState("", << >>)

\* Lines 106-108.
Exit ==
  /\ pc = "prompt"
  /\ \E typed \in {"exit", "quit"} :
        /\ Lower(typed) \in {"exit", "quit"}
        /\ user_input' = typed
  /\ pc' = "exited"
  /\ UNCHANGED <<state, stages, calls, vsm_calls, parsed_response, results, chat_history>>

\* Lines 110-115.
ClearHistory ==
  /\ pc = "prompt"
  /\ Lower("clear") = "clear"
  /\ user_input' = "clear"
  /\ chat_history' = << >>
  /\ UNCHANGED <<state, pc, stages, calls, vsm_calls, parsed_response, results>>

\* Lines 117-118.
BlankInput ==
  /\ pc = "prompt"
  /\ user_input' = "  "
  /\ UNCHANGED <<state, pc, stages, calls, vsm_calls, parsed_response, results, chat_history>>

\* Lines 120-165: a query starts a pass on a copy of the history.
StartTurn ==
  /\ pc = "prompt"
  /\ Len(chat_history) < 2 * MaxTurns
  /\ \E query \in Queries :
        /\ query \notin Commands
        /\ user_input' = query
        /\ state' = InitialState(query, chat_history)
  /\ pc' = "preprocess_query"
  /\ stages' = << >>
  /\ calls' = << >>
  /\ vsm_calls' = << >>
  /\ parsed_response' = None
  /\ results' = << >>
  /\ UNCHANGED chat_history

\* Lines 185-222: the stream has ended, by the END of the graph or by an
\* exception, and the turn is recorded.  What the pass left behind is not
\* read again: the next query builds a new state.
FinishTurn ==
  /\ pc \in {"END", "raised"}
  /\ \E shown \in BOOLEAN :
        chat_history' = AfterStream(chat_history, user_input, state, pc = "raised", shown)
  /\ pc' = "prompt"
  /\ state' = NoPass
  /\ stages' = << >>
  /\ calls' = << >>
  /\ vsm_calls' = << >>
  /\ parsed_response' = None
  /\ results' = << >>
  /\ UNCHANGED user_input

\* Before the first prompt no pass has been started.
SessionInit ==
  /\ pc = "prompt"
  /\ chat_history = << >>
  /\ user_input = ""
  /\ state = NoPass
  /\ stages = << >>
  /\ calls = << >>
  /\ vsm_calls = << >>
  /\ parsed_response = None
  /\ results = << >>

SessionNext ==
  \/ Exit
  \/ ClearHistory
  \/ BlankInput
  \/ StartTurn
  \/ Next
  \/ FinishTurn

SessionSpec == SessionInit /\ [][SessionNext]_vars

\* =================================================================== claims
Last(seq) == seq[Len(seq)]

Terminated == pc = "END"

\* The router has just run (its state and the edge taken are in view).
JustRouted == stages # << >> /\ Last(stages) = "decide_route"

\* C1: every pass ends in a terminal stage: a pass that has not ended can
\* always take a step, and the last stage of an ended pass is the format or
\* the error-handling stage; the value the router returns is always one the
\* graph can follow.
C1_PassTerminates ==
  \/ ENABLED Next
  \/ Terminated /\ Last(stages) \in {"format_final_response", "handle_error"}

\* C2: in every terminated pass final_response_for_user is a non-empty
\* string, whatever texts the model returned and whichever stages failed.
C2_FinalAnswerNonEmpty ==
  Terminated => state.final_response_for_user # << >>

\* C2 witness: a terminated pass in which the merge ran and the model
\* returned the empty text for it; the final response is not that text.
C2_Witness_EmptyTexts ==
  /\ Terminated
  /\ InSeq("llm:synthesize_answers", calls)
  /\ state.synthesized_answer = Some(<< >>)
  /\ state.final_response_for_user # << >>

\* C3: in every terminated pass, citations is empty when the final answer
\* came from the error path or is the knowledge answer; a non-empty list
\* means the final answer is the document answer or the synthesized answer.
C3_CitationsConsistent ==
  Terminated =>
    /\ state.final_from \in {"error_template", "apology", "knowledge"}
         => state.citations = << >>
    /\ state.citations # << >> =>
         \/ /\ state.final_from = "doc"
            /\ state.final_response_for_user = state.answer_from_docs_only[1]
         \/ /\ state.final_from = "synthesized"
            /\ state.final_response_for_user = state.synthesized_answer[1]

\* C3 witness: the knowledge answer became final and the citations that the
\* document answer carried were cleared.
C3_Witness_KnowledgeClearsCitations ==
  /\ Terminated
  /\ state.final_from = "knowledge"
  /\ state.final_response_for_user = state.answer_from_general_knowledge[1]
  /\ Truthy(state.answer_from_docs_only)
  /\ ExtractCitations(state.answer_from_docs_only[1]) # << >>
  /\ state.citations = << >>

\* C4: when error_message is set as the router runs, the stage that runs
\* next is the error-handling stage (so no necessity check, knowledge,
\* synthesis or format stage runs).
C4_ErrorRoutesToHandler ==
  (JustRouted /\ IsSet(state.error_message)) =>
    /\ pc = "handle_error"
    /\ ~InSeq("llm:necessity_check", calls)

\* C5: in every terminated pass with error_message set, the final answer is
\* an error template embedding the error text and citations is empty.
C5_ErrorTakesPrecedence ==
  (Terminated /\ IsSet(state.error_message)) =>
    /\ state.final_response_for_user
         \in {ErrorTemplate(state.error_message[1]),
              ApologyTemplate(state.error_message[1])}
    /\ state.citations = << >>

\* C6: when the vector store fails during an attempted retrieval, the
\* retrieval stage leaves retrieved_docs empty, doc_search_performed false
\* and error_message set, and the doc-answer stage leaves the document
\* answer None.
C6_StoreFailureRecorded ==
  (vsm_calls # << >> /\ vsm_calls[1].store_failed) =>
    /\ pc = "generate_answer_from_docs" =>
         /\ state.retrieved_docs = << >>
         /\ ~state.doc_search_performed
         /\ IsSet(state.error_message)
    /\ pc = "decide_route" => state.answer_from_docs_only = None

\* C7: when the restriction flag is true after preprocessing, the knowledge
\* stage never runs and no model call is made for it.
C7_RestrictedNeverKnowledge ==
  (stages # << >> /\ state.use_external_knowledge_explicitly_forbidden) =>
    /\ pc # "generate_general_knowledge"
    /\ ~InSeq("generate_general_knowledge", stages)
    /\ ~InSeq("llm:generate_general_knowledge", calls)

\* C7 witness: a restricted pass has gone through the router and ended
\* although no document answer was there to give.
C7_Witness_RestrictedEnded ==
  /\ Terminated
  /\ state.use_external_knowledge_explicitly_forbidden
  /\ ~Truthy(state.answer_from_docs_only)
  /\ InSeq("decide_route", stages)

\* A restricted pass without error that has ended.
RestrictedEnded ==
  /\ Terminated
  /\ state.error_message = None
  /\ state.use_external_knowledge_explicitly_forbidden

\* The stages of a pass that went from the router straight to the format stage.
DirectToFormat ==
  <<"preprocess_query", "retrieve_documents", "generate_answer_from_docs",
    "decide_route", "format_final_response">>

\* C8 as stated: in a restricted pass without error the final answer is the
\* document answer when there is one (not None) and the fixed
\* cannot-answer message otherwise; the router goes directly to the format
\* stage and the citations are those of the document answer.
C8_Original_RestrictedFinal ==
  RestrictedEnded =>
    /\ state.final_response_for_user =
         IF state.answer_from_docs_only # None THEN state.answer_from_docs_only[1]
         ELSE RestrictedCannotAnswerMsg
    /\ stages = DirectToFormat
    /\ state.citations =
         IF state.answer_from_docs_only # None
         THEN ExtractCitations(state.answer_from_docs_only[1]) ELSE << >>

\* C8 amended: the final answer is the document answer when that is a
\* non-empty text; when the document answer is the empty text it is the fixed
\* couldn't-find-relevant-information message, and when it is None it is the
\* fixed cannot-answer-with-the-current-restrictions message; the router goes
\* directly to the format stage and the citations are those extracted from
\* the document answer (none when there is no such answer).
C8_RestrictedFinal ==
  RestrictedEnded =>
    /\ state.final_response_for_user =
         IF state.answer_from_docs_only = None THEN RestrictedCannotAnswerMsg
         ELSE IF state.answer_from_docs_only[1] = << >> THEN CouldntFindMsg
         ELSE state.answer_from_docs_only[1]
    /\ stages = DirectToFormat
    /\ state.citations =
         IF state.answer_from_docs_only # None
         THEN ExtractCitations(state.answer_from_docs_only[1]) ELSE << >>

\* C8 witness: a restricted pass ended with the document answer, citations
\* included, as the final answer.
C8_Witness_DocAnswerFinal ==
  /\ RestrictedEnded
  /\ Truthy(state.answer_from_docs_only)
  /\ state.final_response_for_user = state.answer_from_docs_only[1]
  /\ state.citations # << >>

\* C9: when files are named as the retrieval stage runs, the vector store is
\* called, once, and the filter passed is the membership predicate over the
\* lower-cased names.
C9_ExplicitFilesForceFilteredSearch ==
  (InSeq("retrieve_documents", stages) /\ Truthy(state.target_files_explicit)) =>
    /\ Len(vsm_calls) = 1
    /\ vsm_calls[1].args.filter_metadata
         = Some([i \in 1..Len(state.target_files_explicit[1]) |->
                   Lower(state.target_files_explicit[1][i])])

\* C9 witness: the store was called for a file named in upper case, with the
\* lower-cased name in the filter.
C9_Witness_LowerCasedFilter ==
  /\ InSeq("retrieve_documents", stages)
  /\ state.target_files_explicit = Some(<<"Paper1.PDF">>)
  /\ Len(vsm_calls) = 1
  /\ vsm_calls[1].args.filter_metadata = Some(<<"paper1.pdf">>)

\* C10: after a preprocess that did not fail, with no named file
\* query_requires_doc_search equals the classifier's value-query flag and
\* retrieval_filter is None; with a named file query_requires_doc_search is
\* true whatever the flag.
C10_RequiresDocSearch ==
  (pc = "retrieve_documents" /\ state.error_message = None) =>
    /\ parsed_response # None
    /\ LET obj == parsed_response[1]
           flag == obj.value_query_intent = "true"
       IN  IF Truthy(obj.explicit_filenames)
           THEN state.query_requires_doc_search = TRUE
           ELSE /\ state.query_requires_doc_search = flag
                /\ state.retrieval_filter = None

\* C10 witness: no file named, the flag true: a search is required and no
\* filter is set.
C10_Witness_ValueQueryNoFile ==
  /\ pc = "retrieve_documents"
  /\ state.error_message = None
  /\ parsed_response # None
  /\ ~Truthy(parsed_response[1].explicit_filenames)
  /\ parsed_response[1].value_query_intent = "true"
  /\ state.query_requires_doc_search
  /\ state.retrieval_filter = None

\* The doc-answer stage has just run and the model's reply was taken as the
\* answer from the documents.
DocAnswerTaken ==
  /\ stages # << >> /\ Last(stages) = "generate_answer_from_docs"
  /\ InSeq("llm:generate_answer_from_docs", calls)
  /\ state.answer_from_docs_only # Some(DocApologyMsg)

\* The position of the first marker of a pair in a text.
FirstMarker(text, pair) ==
  CHOOSE i \in 1..Len(text) :
    /\ CitationOf(text[i]) = Some(pair)
    /\ \A j \in 1..(i - 1) : CitationOf(text[j]) # Some(pair)

\* C11: the citations extracted from a doc answer hold each (source file,
\* page) pair that occurs as a citation marker in the text exactly once, in
\* the order of first occurrence: no two entries are the same pair, no marked
\* pair is missing, and no entry is a pair the text does not mark.
C11_CitationsDeduplicated ==
  DocAnswerTaken =>
    LET text == state.answer_from_docs_only[1]
        cits == state.citations
    IN  /\ \A i, j \in 1..Len(cits) : i # j => cits[i] # cits[j]
        /\ \A k \in 1..Len(text) :
              CitationOf(text[k]) # None => InSeq(CitationOf(text[k])[1], cits)
        /\ \A i \in 1..Len(cits) :
              \E k \in 1..Len(text) : CitationOf(text[k]) = Some(cits[i])
        /\ \A i, j \in 1..Len(cits) :
              i < j => FirstMarker(text, cits[i]) < FirstMarker(text, cits[j])

\* A doc answer that marks one pair twice, in two spellings, and another pair
\* in between: two citations are extracted.
C11_Witness_RepeatedMarker ==
  /\ DocAnswerTaken
  /\ Len(CitationsFound(state.answer_from_docs_only[1])) = 3
  /\ state.citations = <<[source_file |-> "paper1.pdf", page_number |-> 4],
                         [source_file |-> "notes.pdf", page_number |-> 1]>>

\* The router ran its classification: no error was set and knowledge was not
\* restricted, so neither of its first two rules returned.
Classified ==
  /\ JustRouted
  /\ ~IsSet(state.error_message)
  /\ ~state.use_external_knowledge_explicitly_forbidden

\* A text holds one of the four failure phrases, in any letter case.
HoldsFailurePhrase(text) ==
  \/ LowerContains(text, "cannot answer")
  \/ LowerContains(text, "not contain sufficient information")
  \/ LowerContains(text, "no relevant documents")
  \/ LowerContains(text, "couldn't find relevant information")

\* The router took the document answer as conclusive: it went on to the
\* necessity check.
TakenAsConclusive == InSeq("llm:necessity_check", calls)

\* C12 as stated: the router takes a doc answer as conclusive exactly when it
\* is non-null and holds none of the four failure phrases.
C12_Original_Conclusive ==
  Classified =>
    (TakenAsConclusive <=>
       /\ state.answer_from_docs_only # None
       /\ ~HoldsFailurePhrase(state.answer_from_docs_only[1]))

\* C12, amended: the router takes a doc answer as conclusive exactly when it
\* is a non-empty text that holds none of the four failure phrases; a null
\* doc answer, an empty one, or one holding any of the phrases is
\* non-conclusive and the router sends the pass to the knowledge stage without
\* a necessity check.
C12_Conclusive ==
  Classified =>
    /\ TakenAsConclusive <=>
         /\ state.answer_from_docs_only # None
         /\ state.answer_from_docs_only[1] # << >>
         /\ ~HoldsFailurePhrase(state.answer_from_docs_only[1])
    /\ ~TakenAsConclusive =>
         /\ pc = "generate_general_knowledge"
         /\ ~state.should_compare_with_general_knowledge

\* The doc answer holds only the fourth phrase and is taken as non-conclusive.
C12_Witness_FourthPhrase ==
  /\ Classified
  /\ ~TakenAsConclusive
  /\ state.answer_from_docs_only # None
  /\ LowerContains(state.answer_from_docs_only[1], "couldn't find relevant information")
  /\ ~AnyPhrase(state.answer_from_docs_only[1], SelectionFailurePhrases)

\* How the call of a gateway came out in this pass (the call was made).
ResultOf(name) == results[CHOOSE i \in 1..Len(calls) : calls[i] = name]

FailedResults == {"raised", "unparsable", "malformed"}

\* No gateway call of the pass failed and no error is recorded.
NoFailure ==
  /\ \A i \in 1..Len(results) : results[i] \notin FailedResults
  /\ ~IsSet(state.error_message)

\* The necessity check was made and answered that general knowledge is not
\* needed.
NecessitySaidNo ==
  /\ InSeq("llm:necessity_check", calls)
  /\ ResultOf("llm:necessity_check") = "not_needed"

\* C13: in a pass with no failure and no restriction where retrieval returns
\* at least one passage, the doc answer is conclusive and the necessity check
\* returns false, the knowledge stage is not invoked, the final answer is the
\* doc answer text, and the citations are the deduplicated citations extracted
\* from that text.
C13_DocAnswerIsFinal ==
  ( /\ Terminated
    /\ NoFailure
    /\ ~state.use_external_knowledge_explicitly_forbidden
    /\ state.retrieved_docs # << >>
    /\ NecessitySaidNo )
  =>
    /\ ~InSeq("generate_general_knowledge", stages)
    /\ ~InSeq("llm:generate_general_knowledge", calls)
    /\ ~InSeq("synthesize_answers", stages)
    /\ state.answer_from_docs_only # None
    /\ state.final_response_for_user = state.answer_from_docs_only[1]
    /\ state.citations = ExtractCitations(state.answer_from_docs_only[1])

\* The scenario of the claim: one citation marker in a conclusive doc answer.
C13_Witness_ConclusiveDocAnswer ==
  /\ Terminated
  /\ NoFailure
  /\ ~state.use_external_knowledge_explicitly_forbidden
  /\ state.retrieved_docs # << >>
  /\ NecessitySaidNo
  /\ state.final_response_for_user =
       <<"The tensile strength is 40 MPa ", "[Source: paper1.pdf, Page: 4]">>
  /\ state.citations = <<[source_file |-> "paper1.pdf", page_number |-> 4]>>

\* The preprocess reply named no file and did not flag a value query.
GeneralQuery ==
  /\ parsed_response # None
  /\ ~Truthy(parsed_response[1].explicit_filenames)
  /\ parsed_response[1].value_query_intent \in {"missing", "empty", "false"}

\* A terminated pass of the general-query scenario.
GeneralQueryEnded ==
  /\ Terminated
  /\ NoFailure
  /\ ~state.use_external_knowledge_explicitly_forbidden
  /\ GeneralQuery

\* What the scenario does apart from the final answer.
GeneralQueryPath ==
  /\ ~InSeq("vsm:query_store", calls)
  /\ vsm_calls = << >>
  /\ ~state.doc_search_performed
  /\ stages = <<"preprocess_query", "retrieve_documents", "generate_answer_from_docs",
                "decide_route", "generate_general_knowledge", "format_final_response">>
  /\ ~state.should_compare_with_general_knowledge
  /\ state.answer_from_general_knowledge # None
  /\ state.citations = << >>

\* C14 as stated: in a pass with no failure and no restriction where
\* preprocessing yields no explicit file and intent flag false, the retrieval
\* gateway is not called, doc_search_performed stays false, the knowledge
\* stage is invoked with should_compare false, the synthesis stage does not
\* run, and the final answer equals the knowledge answer with no citations.
C14_Original_GeneralQuery ==
  GeneralQueryEnded =>
    /\ GeneralQueryPath
    /\ state.final_response_for_user = state.answer_from_general_knowledge[1]

\* C14, amended: the same, except that the final answer equals the knowledge
\* answer when that is a non-empty text and is the fixed unable-to-process
\* message when the knowledge answer is the empty text.
C14_GeneralQuery ==
  GeneralQueryEnded =>
    /\ GeneralQueryPath
    /\ state.final_response_for_user =
         IF state.answer_from_general_knowledge[1] # << >>
         THEN state.answer_from_general_knowledge[1]
         ELSE UnableMsg

\* The scenario with a knowledge answer that has text.
C14_Witness_KnowledgeAnswerFinal ==
  /\ GeneralQueryEnded
  /\ state.final_response_for_user =
       <<"Quantum tunneling is a quantum mechanical phenomenon.">>
  /\ state.final_from = "knowledge"

\* C15: the error field is first-write-wins: once a stage of a pass has set
\* error_message, no later stage of that pass changes its value.
C15_ErrorFirstWriteWins ==
  [][IsSet(state.error_message) => state'.error_message = state.error_message]_vars

\* C16: every recoverable failure in a pass is recorded in error: once a
\* preprocess call or parse, a retrieval-gateway call, a generation call of
\* the doc, knowledge or synthesis stage, or a necessity-check call or parse
\* has failed, error_message is non-null.
C16_FailureRecorded ==
  (\E i \in 1..Len(results) : results[i] \in FailedResults)
    => IsSet(state.error_message)

\* How many calls of a gateway the pass has made.
CallsOf(name) == Cardinality({i \in 1..Len(calls) : calls[i] = name})

\* C17: within one pass the retrieval gateway is called at most once and each
\* step that calls the language model (preprocess, doc answer, necessity
\* check, knowledge answer, synthesis) issues at most one call; in
\* particular a call that failed is not made again.
C17_AtMostOneCallEach ==
  /\ \A name \in {"vsm:query_store", "llm:preprocess_query",
                  "llm:generate_answer_from_docs", "llm:necessity_check",
                  "llm:generate_general_knowledge", "llm:synthesize_answers"} :
        CallsOf(name) <= 1
  /\ Len(vsm_calls) <= 1
  /\ \A i, j \in 1..Len(stages) : i # j => stages[i] # stages[j]

\* A terminated pass that made all six calls, two of which failed.
C17_Witness_FailedCallsNotReissued ==
  /\ Terminated
  /\ Len(calls) = 6
  /\ ResultOf("llm:generate_general_knowledge") = "raised"
  /\ ResultOf("llm:synthesize_answers") = "raised"

\* A pass has been started and its turn is not yet recorded.
InFlight == pc \notin {"prompt", "exited"}

\* The step records a turn: the history grows by the user's message followed
\* by one AI message.
TurnRecorded ==
  LET n == Len(chat_history)
  IN  /\ Len(chat_history') = n + 2
      /\ SubSeq(chat_history', 1, n) = chat_history
      /\ chat_history'[n + 1] = HumanMessage(user_input)
      /\ chat_history'[n + 2].role = "ai"

\* C18: the caller's chat history is not changed while a pass is in flight:
\* the pass works on a copy taken before it starts, which stays equal to the
\* caller's history for the whole pass; the history changes only after the
\* pass has ended, by the user's message followed by the AI message, or at
\* the prompt by the clear command.
C18_HistoryAppendedAfterPass ==
  [][ /\ InFlight' => /\ chat_history' = chat_history
                      /\ state'.chat_history = chat_history'
                      /\ state'.original_query = user_input'
      /\ chat_history' # chat_history =>
           \/ pc = "prompt" /\ user_input' = "clear" /\ chat_history' = << >>
           \/ pc \in {"END", "raised"} /\ pc' = "prompt" /\ TurnRecorded
    ]_vars

\* Two answered turns: the second pass ran on the history of the first turn,
\* and its answer was appended after it.
C18_Witness_TwoTurns ==
  /\ pc = "prompt"
  /\ Len(chat_history) = 4
  /\ chat_history[1].role = "human" /\ chat_history[2].role = "ai"
  /\ chat_history[3] = HumanMessage(user_input)
  /\ chat_history[4] =
       AIMessage(<<"Quantum tunneling is a quantum mechanical phenomenon.">>)

\* The text of a reply tells of an error in the caller's loop.
CallerErrorText(content) ==
  /\ Len(content) > 0
  /\ content[1] \in {"An error occurred during processing: ",
                     "Sorry, a critical error occurred: "}

\* C19: when driving the stage graph raises for a turn, the caller still
\* records the turn: the next step appends the user's input of that turn
\* followed by one AI message carrying an error text, and the session is back
\* at the prompt.
C19_RaisedTurnRecorded ==
  [][ pc = "raised" =>
        /\ pc' = "prompt"
        /\ user_input = state.original_query
        /\ TurnRecorded
        /\ CallerErrorText(chat_history'[Len(chat_history')].content)
    ]_vars

\* A second turn whose pass raised: the session had gone on after the first
\* turn, and the history ends with the query and the stream-error reply.
C19_Witness_RaisedTurnInHistory ==
  /\ pc = "prompt"
  /\ Len(chat_history) = 4
  /\ chat_history[3] = HumanMessage(user_input)
  /\ chat_history[4] = AIMessage(StreamErrorContent(RouterKeyError))
  /\ ENABLED BlankInput

\* The retrieval stage has run in this pass.
Retrieved == InSeq("retrieve_documents", stages)

\* Neither the intent nor a named file asks for a search.
NoSearchOwed ==
  ~state.query_requires_doc_search /\ ~Truthy(state.target_files_explicit)

\* C21: when requires_doc_search is false and no explicit file is named, the
\* retrieval stage does not call the retrieval gateway and leaves the
\* retrieved passages empty and doc_search_performed false; and
\* doc_search_performed is true only after a gateway call of this pass has
\* returned.
C21_SearchSkipped ==
  /\ (Retrieved /\ NoSearchOwed) =>
        /\ ~InSeq("vsm:query_store", calls)
        /\ vsm_calls = << >>
        /\ state.retrieved_docs = << >>
        /\ ~state.doc_search_performed
  /\ state.doc_search_performed =>
        /\ Retrieved
        /\ InSeq("vsm:query_store", calls)
        /\ Len(vsm_calls) = 1

\* The retrieval stage has just been skipped.
C21_Witness_Skipped ==
  /\ stages = <<"preprocess_query", "retrieve_documents">>
  /\ NoSearchOwed
  /\ parsed_response # None
  /\ calls = <<"llm:preprocess_query">>
  /\ ~state.doc_search_performed

\* The doc-answer stage has just run.
DocStageJustRan == stages # << >> /\ Last(stages) = "generate_answer_from_docs"

\* C22: when no passage was retrieved, the doc-answer stage makes no
\* language-model call, sets citations to the empty list, and sets the doc
\* answer to the fixed no-relevant-documents message exactly when
\* doc_search_performed is true and a search was expected (requires_doc_search
\* or explicit files); in every other case the doc answer is left null.
C22_NoPassages ==
  (DocStageJustRan /\ state.retrieved_docs = << >>) =>
    /\ ~InSeq("llm:generate_answer_from_docs", calls)
    /\ state.citations = << >>
    /\ state.answer_from_docs_only =
         IF state.doc_search_performed
              /\ (state.query_requires_doc_search \/ Truthy(state.target_files_explicit))
         THEN Some(<<"No relevant documents",
                     " were found to answer your query based on the specified criteria.">>)
         ELSE None

\* A search that was expected and performed found nothing: the fixed message
\* is the doc answer.
C22_Witness_SearchFoundNothing ==
  /\ DocStageJustRan
  /\ state.retrieved_docs = << >>
  /\ state.doc_search_performed
  /\ InSeq("vsm:query_store", calls)
  /\ state.answer_from_docs_only = Some(NoRelevantDocsMsg)

\* The doc-generation call of this pass was made and raised.
DocCallFailed ==
  /\ InSeq("llm:generate_answer_from_docs", calls)
  /\ ResultOf("llm:generate_answer_from_docs") = "raised"

\* C23: when passages exist and the doc-generation call fails, the doc-answer
\* stage sets the doc answer to the fixed apology string, sets citations to
\* the empty list and records the error; the pass continues to the router,
\* and the router's value leads to the error-handling stage.
C23_DocFailureHandled ==
  DocCallFailed =>
    /\ state.retrieved_docs # << >>
    /\ IsSet(state.error_message)
    /\ DocStageJustRan =>
         /\ state.answer_from_docs_only = Some(DocApologyMsg)
         /\ state.citations = << >>
         /\ state.error_message[1][1] = "Error generating answer from docs: "
         /\ pc = "decide_route"
    /\ JustRouted => pc = "handle_error"

\* The part of C23 about the doc-answer stage alone.
C23_Side_StageEffects ==
  (DocCallFailed /\ DocStageJustRan) =>
    /\ state.answer_from_docs_only = Some(DocApologyMsg)
    /\ state.citations = << >>
    /\ IsSet(state.error_message)
    /\ pc = "decide_route"

\* The router sent the pass to the knowledge stage without a comparison and
\* without a necessity check.
ToKnowledgeNoCompare ==
  /\ pc = "generate_general_knowledge"
  /\ ~state.should_compare_with_general_knowledge
  /\ ~InSeq("llm:necessity_check", calls)

\* A search was expected and performed.
SearchExpectedAndPerformed ==
  /\ state.doc_search_performed
  /\ (state.query_requires_doc_search \/ Truthy(state.target_files_explicit))

\* C24: with no error and no restriction, if a doc search was expected and
\* performed and the doc answer is not conclusive (null, or holding a failure
\* phrase, the doc stage's own no-relevant-documents message included), the
\* router routes to the knowledge stage with should_compare false and issues
\* no necessity-check call.
C24_InconclusiveToKnowledge ==
  ( /\ Classified
    /\ SearchExpectedAndPerformed
    /\ \/ state.answer_from_docs_only = None
       \/ HoldsFailurePhrase(state.answer_from_docs_only[1]) )
  => ToKnowledgeNoCompare

\* The doc stage's own message, after a search that found nothing.
C24_Witness_NoRelevantDocs ==
  /\ Classified
  /\ SearchExpectedAndPerformed
  /\ state.retrieved_docs = << >>
  /\ state.answer_from_docs_only = Some(NoRelevantDocsMsg)
  /\ ToKnowledgeNoCompare

\* C25: with no error and no restriction, if no doc search was performed and
\* there is no doc answer, the router routes to the knowledge stage with
\* should_compare false and issues no necessity-check call.
C25_NoSearchToKnowledge ==
  ( /\ Classified
    /\ ~state.doc_search_performed
    /\ state.answer_from_docs_only = None )
  => ToKnowledgeNoCompare

\* A pure general-knowledge query at the router.
C25_Witness_PureGeneralQuery ==
  /\ Classified
  /\ ~state.doc_search_performed
  /\ state.answer_from_docs_only = None
  /\ calls = <<"llm:preprocess_query">>
  /\ pc = "generate_general_knowledge"

\* The router has run on a state with no error, no restriction and a doc
\* answer it takes as conclusive: a text that is not empty and holds none of
\* the four failure phrases.
RoutedOnConclusive ==
  /\ InSeq("decide_route", stages)
  /\ \A i \in 1..Len(calls) :
        calls[i] \in {"llm:preprocess_query", "llm:generate_answer_from_docs"}
          => results[i] \notin FailedResults
  /\ ~state.use_external_knowledge_explicitly_forbidden
  /\ Truthy(state.answer_from_docs_only)
  /\ ~HoldsFailurePhrase(state.answer_from_docs_only[1])

\* C26: with no error, no restriction and a conclusive doc answer, the router
\* issues exactly one necessity-check call; if the reply parses to
\* needs_general_knowledge true, or the call or the parse fails, the router
\* routes to the knowledge stage with should_compare true, and the synthesis
\* stage runs after it; if the reply parses to false, the final answer is set
\* to the doc answer and the router routes directly to the format stage.
C26_NecessityCheck ==
  RoutedOnConclusive =>
    /\ CallsOf("llm:necessity_check") = 1
    /\ ResultOf("llm:necessity_check") \in {"needed", "raised", "unparsable"} =>
         /\ state.should_compare_with_general_knowledge
         /\ JustRouted => pc = "generate_general_knowledge"
         /\ (stages # << >> /\ Last(stages) = "generate_general_knowledge")
              => pc = "synthesize_answers"
         /\ Terminated => /\ InSeq("generate_general_knowledge", stages)
                          /\ InSeq("synthesize_answers", stages)
    /\ ResultOf("llm:necessity_check") = "not_needed" =>
         /\ JustRouted =>
              /\ pc = "format_final_response"
              /\ state.final_response_for_user = state.answer_from_docs_only[1]
         /\ ~InSeq("generate_general_knowledge", stages)
         /\ ~InSeq("synthesize_answers", stages)

\* The check failed, and the pass ended after the knowledge and the synthesis
\* stage.
C26_Witness_FailedCheckCompares ==
  /\ RoutedOnConclusive
  /\ ResultOf("llm:necessity_check") \in {"raised", "unparsable"}
  /\ Terminated
  /\ InSeq("synthesize_answers", stages)
  /\ state.should_compare_with_general_knowledge

\* One of the router's rules 1 to 5 matches a state: an error, a restriction,
\* an expected and performed search without a conclusive answer, no search
\* and no doc answer, or a conclusive doc answer.
RulesOneToFiveMatch(s) ==
  LET doc == s.answer_from_docs_only
      expected == s.query_requires_doc_search \/ Truthy(s.target_files_explicit)
      inconclusive == ~Truthy(doc) \/ HoldsFailurePhrase(doc[1])
  IN  \/ IsSet(s.error_message)
      \/ s.use_external_knowledge_explicitly_forbidden
      \/ s.doc_search_performed /\ expected /\ inconclusive
      \/ ~s.doc_search_performed /\ ~Truthy(doc)
      \/ Truthy(doc) /\ ~inconclusive

\* C27: the router's fallback branch (rule 6) is never reached in any pass:
\* for every state the preprocess, retrieval and doc-answer stages can
\* produce, one of rules 1 to 5 matches first.
C27_FallbackUnreachable ==
  pc = "decide_route" => RulesOneToFiveMatch(state)

\* A state at the router that only rule 3 keeps from the fallback: a doc
\* answer with text that is not conclusive.
C27_Witness_InconclusiveText ==
  /\ pc = "decide_route"
  /\ ~IsSet(state.error_message)
  /\ ~state.use_external_knowledge_explicitly_forbidden
  /\ Truthy(state.answer_from_docs_only)
  /\ HoldsFailurePhrase(state.answer_from_docs_only[1])
  /\ state.retrieved_docs # << >>

\* The router sent the pass to the knowledge stage with should_compare false,
\* and the knowledge call returned a text that is not empty.
KnowledgeAloneSucceeded ==
  /\ InSeq("generate_general_knowledge", stages)
  /\ ~state.should_compare_with_general_knowledge
  /\ ResultOf("llm:generate_general_knowledge") = "ok"
  /\ Truthy(state.answer_from_general_knowledge)

\* C28: in any pass where the router sends control to the knowledge stage
\* with should_compare false and the knowledge call succeeds with a non-empty
\* text, the final answer at termination equals the knowledge answer and
\* citations is empty, also when a non-conclusive doc answer (one holding any
\* of the router's four failure phrases) exists.
C28_KnowledgeAnswerFinal ==
  (Terminated /\ KnowledgeAloneSucceeded) =>
    /\ state.final_response_for_user = state.answer_from_general_knowledge[1]
    /\ state.citations = << >>

\* C28 for the doc answers that hold none of the phrases of the format
\* stage's own list.
C28_Side_ThreePhrases ==
  ( /\ Terminated
    /\ KnowledgeAloneSucceeded
    /\ ~(/\ Truthy(state.answer_from_docs_only)
         /\ ~AnyPhrase(state.answer_from_docs_only[1], SelectionFailurePhrases)) )
  =>
    /\ state.final_response_for_user = state.answer_from_general_knowledge[1]
    /\ state.citations = << >>

\* The merge call of the synthesis stage was made in this pass.
MergeCalled == InSeq("llm:synthesize_answers", calls)

\* C29: the synthesis (merge) language-model call is made only when
\* should_compare is true and both the doc answer and the knowledge answer
\* are present; in every other case the synthesis stage makes no call and
\* synthesized_answer stays unset.
C29_MergeOnlyWhenOwed ==
  /\ MergeCalled =>
        /\ state.should_compare_with_general_knowledge
        /\ state.answer_from_docs_only # None
        /\ state.answer_from_general_knowledge # None
  /\ ~MergeCalled => state.synthesized_answer = None

\* The synthesis stage ran without a merge: the knowledge answer had no text.
C29_Witness_SelectionInstead ==
  /\ stages # << >> /\ Last(stages) = "synthesize_answers"
  /\ ~MergeCalled
  /\ state.synthesized_answer = None
  /\ state.final_response_for_user # << >>

\* The merge call was made and returned.
MergeSucceeded == MergeCalled /\ ResultOf("llm:synthesize_answers") = "ok"

\* C30 as stated: when the merge runs and succeeds, the synthesis stage leaves
\* citations unchanged: at termination citations equals the list extracted
\* from the doc answer, and the final answer equals the synthesized answer.
C30_Original_MergeKeepsCitations ==
  (Terminated /\ MergeSucceeded) =>
    /\ state.citations = ExtractCitations(state.answer_from_docs_only[1])
    /\ state.synthesized_answer # None
    /\ state.final_response_for_user = state.synthesized_answer[1]

\* C30, amended: when the merge runs and succeeds, the synthesis stage leaves
\* citations as extracted from the doc answer and sets the synthesized
\* answer; if no error is recorded in the pass, at termination citations is
\* still that list and the final answer equals the synthesized answer when
\* that is a non-empty text, and the doc answer when the synthesized text is
\* empty.
C30_MergeKeepsCitations ==
  MergeSucceeded =>
    /\ state.synthesized_answer # None
    /\ (stages # << >> /\ Last(stages) = "synthesize_answers") =>
          state.citations = ExtractCitations(state.answer_from_docs_only[1])
    /\ (Terminated /\ ~IsSet(state.error_message)) =>
          /\ state.citations = ExtractCitations(state.answer_from_docs_only[1])
          /\ state.final_response_for_user =
               IF state.synthesized_answer[1] # << >>
               THEN state.synthesized_answer[1]
               ELSE state.answer_from_docs_only[1]

\* A merged answer with text, in a pass without error, ended with the
\* citation of the doc answer.
C30_Witness_MergedAnswerFinal ==
  /\ Terminated
  /\ MergeSucceeded
  /\ ~IsSet(state.error_message)
  /\ state.final_response_for_user =
       <<"Combined: 40 MPa ", "[Source: paper1.pdf, Page: 4]", " and background.">>
  /\ state.citations = <<[source_file |-> "paper1.pdf", page_number |-> 4]>>

\* The synthesis stage has just run and its merge call raised.
MergeJustFailed ==
  /\ stages # << >> /\ Last(stages) = "synthesize_answers"
  /\ MergeCalled
  /\ ResultOf("llm:synthesize_answers") = "raised"

\* C31: when the merge call fails, the synthesis stage sets the final answer
\* to the fixed fallback string that holds both the doc answer and the
\* knowledge answer, each labelled by its source, records the error, and
\* leaves synthesized_answer unset.
C31_MergeFailure ==
  MergeJustFailed =>
    /\ state.final_response_for_user =
         <<"Sorry, ", "an error occurred",
           " while combining information. From documents: ">>
         \o state.answer_from_docs_only[1]
         \o <<". From general knowledge: ">>
         \o state.answer_from_general_knowledge[1]
         \o <<".">>
    /\ IsSet(state.error_message)
    /\ state.error_message[1][1] = "Error synthesizing answers: "
    /\ state.synthesized_answer = None

\* A failed merge of a doc answer and a knowledge answer that both have text.
C31_Witness_FallbackString ==
  /\ MergeJustFailed
  /\ state.answer_from_general_knowledge =
       Some(<<"Quantum tunneling is a quantum mechanical phenomenon.">>)
  /\ Len(state.final_response_for_user) = 8
  /\ state.final_from = "synthesis_fallback"

\* The knowledge-generation call of this pass raised.
KnowledgeCallFailed ==
  /\ InSeq("llm:generate_general_knowledge", calls)
  /\ ResultOf("llm:generate_general_knowledge") = "raised"

\* C32: when the knowledge-generation call fails, the knowledge stage sets
\* the knowledge answer to the fixed apology string and records the error,
\* and the pass goes on through the remaining stages to the format stage
\* instead of aborting.
C32_KnowledgeFailure ==
  KnowledgeCallFailed =>
    /\ state.answer_from_general_knowledge =
         Some(<<"Sorry, ", "an error occurred",
                " while trying to answer from general knowledge.">>)
    /\ IsSet(state.error_message)
    /\ Last(stages) = "generate_general_knowledge" =>
         /\ state.error_message[1][1] = "Error generating general knowledge: "
         /\ pc \in {"synthesize_answers", "format_final_response"}
    /\ pc # "raised"
    /\ ~Terminated => ENABLED Next
    /\ Terminated => Last(stages) = "format_final_response"

\* A pass that ended in the format stage after its knowledge call had failed
\* and the synthesis stage had run.
C32_Witness_EndedAfterFailure ==
  /\ KnowledgeCallFailed
  /\ Terminated
  /\ InSeq("synthesize_answers", stages)
  /\ Last(stages) = "format_final_response"

\* The answer the priority order of C33 picks, and the citations it leaves,
\* for a state with no final answer: an answer is available when it has
\* text, and a doc answer is conclusive when it holds none of the four
\* failure phrases.
PriorityPick(s) ==
  LET synth == s.synthesized_answer
      doc == s.answer_from_docs_only
      general == s.answer_from_general_knowledge
  IN  IF Truthy(synth) THEN [final |-> synth[1], citations |-> s.citations]
      ELSE IF Truthy(doc) /\ ~HoldsFailurePhrase(doc[1])
      THEN [final |-> doc[1], citations |-> s.citations]
      ELSE IF Truthy(general) THEN [final |-> general[1], citations |-> << >>]
      ELSE IF Truthy(doc) THEN [final |-> doc[1], citations |-> s.citations]
      ELSE [final |-> UnableMsg, citations |-> << >>]

\* C33: when the format stage runs with no error and the final answer still
\* unset, it sets the final answer to the first available of the synthesized
\* answer, a conclusive doc answer, the knowledge answer (clearing
\* citations), any doc answer, and the fixed unable-to-process message
\* (clearing citations); when the final answer is already set and there is
\* no error, it leaves the final answer and citations unchanged.
C33_FormatPriority ==
  [][ (pc = "format_final_response" /\ ~IsSet(state.error_message)) =>
        IF state.final_response_for_user = << >>
        THEN /\ state'.final_response_for_user = PriorityPick(state).final
             /\ state'.citations = PriorityPick(state).citations
        ELSE /\ state'.final_response_for_user = state.final_response_for_user
             /\ state'.citations = state.citations
    ]_vars

\* C33 for the states whose doc answer does not hold the phrase that only the
\* router's list has.
C33_Side_OtherDocAnswers ==
  [][ ( /\ pc = "format_final_response"
        /\ ~IsSet(state.error_message)
        /\ ~(/\ Truthy(state.answer_from_docs_only)
             /\ LowerContains(state.answer_from_docs_only[1],
                              "couldn't find relevant information")) ) =>
        IF state.final_response_for_user = << >>
        THEN /\ state'.final_response_for_user = PriorityPick(state).final
             /\ state'.citations = PriorityPick(state).citations
        ELSE /\ state'.final_response_for_user = state.final_response_for_user
             /\ state'.citations = state.citations
    ]_vars

\* The preprocess stage has just run and failed: its call raised, its reply
\* was not JSON, or the reply parsed but was malformed.
PreprocessJustFailed ==
  /\ stages = <<"preprocess_query">>
  /\ results[1] \in FailedResults

\* C34: after any preprocess failure (model call failure, unparsable output,
\* or an output that parses but is malformed, such as a null
\* value_query_intent), processed_query equals original_query, the error is
\* set, and every other field the preprocess stage writes is at its safe
\* default: knowledge restricted false, no explicit target file, retrieval
\* filter null, requires_doc_search false.
C34_PreprocessFailureDefaults ==
  PreprocessJustFailed =>
    /\ state.processed_query = state.original_query
    /\ IsSet(state.error_message)
    /\ ~state.use_external_knowledge_explicitly_forbidden
    /\ ~Truthy(state.target_files_explicit)
    /\ state.retrieval_filter = None
    /\ ~state.query_requires_doc_search

\* C34 for the failures before the reply is parsed.
C34_Side_CallOrParseFailure ==
  (PreprocessJustFailed /\ results[1] \in {"raised", "unparsable"}) =>
    /\ state.processed_query = state.original_query
    /\ IsSet(state.error_message)
    /\ ~state.use_external_knowledge_explicitly_forbidden
    /\ state.target_files_explicit = None
    /\ state.retrieval_filter = None
    /\ ~state.query_requires_doc_search

\* What C34 does guarantee after a malformed reply.
C34_Side_MalformedReply ==
  (PreprocessJustFailed /\ results[1] = "malformed") =>
    /\ state.processed_query = state.original_query
    /\ IsSet(state.error_message)

\* C35: no stage of a pass changes original_query or chat_history: in every
\* state of the pass, and so at termination, both have the values they had
\* when the pass started (the query the user typed and the caller's history,
\* which the pass leaves alone).
C35_InputsUnchanged ==
  /\ state.original_query = user_input
  /\ state.chat_history = chat_history

\* A pass that started with a history of two messages, rewrote the query for
\* retrieval, and ended.
C35_Witness_EndedWithHistory ==
  /\ Terminated
  /\ Len(state.chat_history) = 2
  /\ state.processed_query = "rewritten query"
  /\ state.original_query # state.processed_query

IsPrefix(a, b) == Len(a) <= Len(b) /\ SubSeq(b, 1, Len(a)) = a

\* The complete stage sequences the claimed order allows: the four leading
\* stages, then optionally knowledge, then optionally synthesis (only after
\* knowledge), then one terminal stage.
StageOrders ==
  { <<"preprocess_query", "retrieve_documents", "generate_answer_from_docs",
      "decide_route">> \o middle \o <<terminal>> :
      middle \in { << >>, <<"generate_general_knowledge">>,
                   <<"generate_general_knowledge", "synthesize_answers">> },
      terminal \in {"format_final_response", "handle_error"} }

\* The pass is over: it ended, or it was aborted by an exception.
PassOver == pc \in {"END", "raised"}

\* C36: the stages of a pass run in the fixed order preprocess, retrieve,
\* doc-answer, routing decision, then optionally knowledge, then optionally
\* synthesis, then exactly one terminal stage: what has run so far is always
\* the beginning of such a sequence (so each stage runs at most once,
\* synthesis only after knowledge, and never both terminal stages), and when
\* the pass is over it is a whole one.
C36_StageOrder ==
  /\ \E full \in StageOrders : IsPrefix(stages, full)
  /\ PassOver => stages \in StageOrders

\* What does hold: the order, and a whole sequence for every pass that ended.
C36_Side_OrderAndEndedPasses ==
  /\ \E full \in StageOrders : IsPrefix(stages, full)
  /\ Terminated => stages \in StageOrders
  /\ ~InSeq("handle_error", stages)

\* The passes that run no terminal stage are those aborted at the router.
C36_Side_AbortedAtRouter ==
  pc = "raised" =>
    /\ Last(stages) = "decide_route"
    /\ IsSet(state.error_message)

\* The test of lines 317 and 364, shared by the selection policy of the
\* synthesis stage and the fallback of the format stage: the doc answer is
\* taken as conclusive.
SelectionTakesAsConclusive(doc_ans) ==
  Truthy(doc_ans) /\ ~AnyPhrase(doc_ans[1], SelectionFailurePhrases)

\* C37: the router, the selection policy of the synthesis stage and the
\* fallback of the format stage classify every doc answer the same way: the
\* doc answer of the state is conclusive for the router exactly when it is
\* conclusive for the other two.
C37_SameClassification ==
  ~NoConclusiveDocAnswer(state.answer_from_docs_only)
    <=> SelectionTakesAsConclusive(state.answer_from_docs_only)

\* The three agree on every doc answer without the phrase "couldn't find
\* relevant information".
C37_Side_AgreeWithoutFourthPhrase ==
  (Truthy(state.answer_from_docs_only)
     => ~LowerContains(state.answer_from_docs_only[1],
                       "couldn't find relevant information"))
  => (~NoConclusiveDocAnswer(state.answer_from_docs_only)
        <=> SelectionTakesAsConclusive(state.answer_from_docs_only))

\* C38: in every reachable state, doc_search_performed true implies that a
\* search was expected (requires_doc_search true or an explicit file named),
\* and retrieved passages non-empty implies doc_search_performed true.
C38_PerformedImpliesExpected ==
  /\ state.doc_search_performed => DocsWereExpected(state)
  /\ state.retrieved_docs # << >> => state.doc_search_performed

\* A search was performed and returned passages.
C38_Witness_SearchWithPassages ==
  /\ Retrieved
  /\ state.doc_search_performed
  /\ Len(state.retrieved_docs) = MaxDocs

\* C39: in every reachable state, should_compare true implies that the doc
\* answer is present and conclusive, that error was unset at routing time and
\* that knowledge is not restricted; so whenever the synthesis stage is
\* entered the doc answer is conclusive, and the branches of the synthesis
\* stage that pick the knowledge answer or the fixed no-conclusive-answer
\* message as the final answer are never executed.
C39_CompareOnlyOnConclusive ==
  /\ state.should_compare_with_general_knowledge =>
       /\ Truthy(state.answer_from_docs_only)
       /\ ~NoConclusiveDocAnswer(state.answer_from_docs_only)
       /\ ~state.use_external_knowledge_explicitly_forbidden
       /\ JustRouted => ~IsSet(state.error_message)
  /\ pc = "synthesize_answers" =>
       /\ state.should_compare_with_general_knowledge
       /\ ~NoConclusiveDocAnswer(state.answer_from_docs_only)
       /\ SelectionTakesAsConclusive(state.answer_from_docs_only)
  /\ (stages # << >> /\ Last(stages) = "synthesize_answers") =>
       state.final_from \in {"doc", "synthesized", "synthesis_fallback"}

\* The synthesis stage ran its selection policy (the knowledge answer came
\* back empty, so no merge was made) and picked the doc answer.
C39_Witness_SelectionPickedDoc ==
  /\ stages # << >>
  /\ Last(stages) = "synthesize_answers"
  /\ ~InSeq("llm:synthesize_answers", calls)
  /\ state.should_compare_with_general_knowledge
  /\ state.final_from = "doc"
  /\ state.final_response_for_user = state.answer_from_docs_only[1]

\* The store query of the pass has failed.
StoreFailed == vsm_calls # << >> /\ vsm_calls[1].store_failed

\* C40: the query operation of the vector-store adapter never propagates a
\* failure: when the store query fails it returns an empty list, so the step
\* of the retrieval stage records doc_search_performed true with no passages
\* and leaves error as it was, and the step of the doc-answer stage that
\* follows makes no call and emits the fixed no-relevant-documents message.
C40_StoreFailureSwallowed ==
  [][ /\ (pc = "retrieve_documents" /\ StoreFailed') =>
           /\ state'.doc_search_performed
           /\ state'.retrieved_docs = << >>
           /\ state'.error_message = state.error_message
      /\ (pc = "generate_answer_from_docs" /\ StoreFailed) =>
           /\ state'.answer_from_docs_only = Some(NoRelevantDocsMsg)
           /\ state'.error_message = state.error_message
           /\ calls' = calls ]_vars

\* The store query failed, and the doc-answer stage has run after it with no
\* error recorded in the pass.
C40_Witness_FailedStoreThenDocStage ==
  /\ StoreFailed
  /\ InSeq("generate_answer_from_docs", stages)
  /\ state.doc_search_performed
  /\ state.answer_from_docs_only = Some(NoRelevantDocsMsg)
  /\ ~IsSet(state.error_message)

====
